---- MODULE Spec2Model ----
(***************************************************************************)
(* Model of internal/project/auto/golang.go: DetectGolang (detection of a  *)
(* Go project and filling of meta.Options) and BuildGolang (assembly of    *)
(* the pipeline graph).                                                    *)
(*                                                                         *)
(* Spec      : repeated DetectGolang calls against a fixed filesystem.     *)
(* SpecBuild : one BuildGolang run, statement by statement.                *)
(***************************************************************************)
EXTENDS Integers, Sequences, FiniteSets, TLC

VARIABLES
    fs,        \* the filesystem snapshot under rootPath
    options,   \* *meta.Options, the shared descriptor
    prev,      \* options as they were when the last DetectGolang call began
    ret,       \* what the last DetectGolang call returned (and what it did)
    calls,     \* number of DetectGolang calls made
    meta,      \* BuildGolang: its *meta.Options argument
    inputs,    \* BuildGolang: its inputs argument (ids of upstream nodes)
    nodes,     \* every dag.Node constructed so far, in construction order
    loc,       \* BuildGolang: its local variables (node ids, 0 = not assigned)
    outputs,   \* BuildGolang: the outputs slice
    pc,        \* BuildGolang: the statement to run next
    idx,       \* BuildGolang: position of the range loop over meta.Commands
    log        \* BuildGolang: the AddInput calls made so far, in order

detectVars == <<fs, options, prev, ret, calls>>
buildVars == <<meta, inputs, nodes, loc, outputs, pc, idx, log>>
vars == <<fs, options, prev, ret, calls, meta, inputs, nodes, loc, outputs, pc, idx, log>>

(***************************************************************************)
(* Bounds of the model.                                                    *)
(***************************************************************************)
MaxCalls == 2
MaxCommands == 2
MaxInputs == 2

(***************************************************************************)
(* Strings and paths.                                                      *)
(***************************************************************************)
\* strings.HasSuffix
HasSuffix(s, suffix) ==
    /\ Len(s) >= Len(suffix)
    /\ SubSeq(s, Len(s) - Len(suffix) + 1, Len(s)) = suffix

\* path.Join / filepath.Join of two clean elements: empty elements are ignored
Join(a, b) ==
    IF a = "" THEN b
    ELSE IF b = "" THEN a
    ELSE a \o "/" \o b

\* modfile.ModulePath: the argument of the first module directive, "" if there
\* is none. File contents are a sequence of lines <<directive, argument>>.
ModulePath(contents) ==
    LET hits == SelectSeq(contents, LAMBDA line : line[1] = "module")
    IN  IF hits = <<>> THEN "" ELSE hits[1][2]

(***************************************************************************)
(* The filesystem.  fs.tree maps each existing directory (its path         *)
(* relative to rootPath, "" for the root) to its listing, sorted by name   *)
(* as ioutil.ReadDir returns it; fs.gomod is the contents of go.mod.       *)
(***************************************************************************)
DirEntry(n) == [name |-> n, isDir |-> TRUE]
FileEntry(n) == [name |-> n, isDir |-> FALSE]

Opt(present, entry) == IF present THEN <<entry>> ELSE <<>>

GoodGomod == << <<"module", "example.org/app">>, <<"go", "1.14">> >>
BadGomod == << <<"go", "1.14">> >>

\* The layouts the model explores.
Layouts ==
    [ gomod : {"absent", "ok", "malformed"},
      src : BOOLEAN,
      internal : BOOLEAN,
      pkg : BOOLEAN,
      cmd : BOOLEAN,
      lib : BOOLEAN,
      mainGo : BOOLEAN ]

\* The filesystem of a layout.  "hack" is always there and holds no Go file;
\* internal/ and pkg/ each hold a version package when they exist.
MkFS(l) ==
    LET root ==
            Opt(l.cmd, DirEntry("cmd"))
            \o Opt(l.gomod # "absent", FileEntry("go.mod"))
            \o <<DirEntry("hack")>>
            \o Opt(l.internal, DirEntry("internal"))
            \o Opt(l.lib, DirEntry("lib"))
            \o Opt(l.mainGo, FileEntry("main.go"))
            \o Opt(l.pkg, DirEntry("pkg"))
            \o Opt(l.src, DirEntry("src"))
        dirs ==
            {"", "hack"}
            \cup (IF l.cmd THEN {"cmd", "cmd/agent", "cmd/server"} ELSE {})
            \cup (IF l.internal THEN {"internal", "internal/version"} ELSE {})
            \cup (IF l.pkg THEN {"pkg", "pkg/version"} ELSE {})
            \cup (IF l.lib THEN {"lib"} ELSE {})
            \cup (IF l.src THEN {"src"} ELSE {})
        listing(d) ==
            CASE d = "" -> root
              [] d = "hack" -> <<FileEntry("release.sh")>>
              [] d = "cmd" ->
                    <<FileEntry("README.md"), DirEntry("agent"), DirEntry("server")>>
              [] d \in {"internal", "pkg"} -> <<DirEntry("version")>>
              [] d = "lib" -> <<FileEntry("lib.go"), FileEntry("lib.md")>>
              [] d \in {"internal/version", "pkg/version"} -> <<FileEntry("version.go")>>
              [] d \in {"cmd/agent", "cmd/server"} -> <<FileEntry("main.go")>>
              [] OTHER -> <<>>
    IN  [ tree |-> [d \in dirs |-> listing(d)],
          gomod |-> IF l.gomod = "malformed" THEN BadGomod ELSE GoodGomod ]

(***************************************************************************)
(* Filesystem primitives.  `fail` is the call on which the environment     *)
(* reports an I/O error during this run: <<site, path>>, or NoFail.        *)
(***************************************************************************)
NoFail == <<"none", "">>

ConvDirs == <<"src", "internal", "pkg", "cmd">>
VersionCandidates == <<"pkg/version", "internal/version">>

FailPoints ==
    {NoFail, <<"open", "go.mod">>, <<"read", "go.mod">>}
    \cup {<<"stat_src", ConvDirs[i]>> : i \in DOMAIN ConvDirs}
    \cup {<<"readdir_top", "">>, <<"hasgo_root", "">>, <<"readdir_root", "">>}
    \cup {<<"hasgo_sub", d>> : d \in {"hack", "lib"}}
    \cup {<<"stat_version", VersionCandidates[i]>> : i \in DOMAIN VersionCandidates}
    \cup {<<"stat_cmd", "cmd">>, <<"readdir_cmd", "cmd">>}

Event(site, path, err) == [site |-> site, path |-> path, err |-> err]

HasEntry(fsys, dir, entry) ==
    /\ dir \in DOMAIN fsys.tree
    /\ \E i \in DOMAIN fsys.tree[dir] : fsys.tree[dir][i] = entry

\* os.Open(gomodPath): the error it returns
OsOpen(fsys, name, fail) ==
    IF ~HasEntry(fsys, "", FileEntry(name)) THEN "ENOENT"
    ELSE IF fail = <<"open", name>> THEN "EACCES"
    ELSE "nil"

\* ioutil.ReadAll(gomod): the error it returns
ReadAll(name, fail) == IF fail = <<"read", name>> THEN "EIO" ELSE "nil"

\* the not-exist case is not told apart from other errors
IsNotExist_never(err) == FALSE

\* os.IsNotExist
IsNotExist(err) == err = "ENOENT"

\* ioutil.ReadDir(path)
ReadDir(fsys, path, site, fail) ==
    IF fail = <<site, path>> THEN [list |-> <<>>, err |-> "EACCES"]
    ELSE IF path \notin DOMAIN fsys.tree THEN [list |-> <<>>, err |-> "ENOENT"]
    ELSE [list |-> fsys.tree[path], err |-> "nil"]

\* directoryExists(rootPath, name): os.Stat, not-exist is (false, nil)
directoryExists(fsys, name, site, fail) ==
    IF fail = <<site, name>> THEN [exists |-> FALSE, err |-> "EACCES"]
    ELSE [exists |-> name \in DOMAIN fsys.tree, err |-> "nil"]

IsGoFile(item) == ~item.isDir /\ HasSuffix(item.name, ".go")

\* the listing error is dropped and the directory taken to hold no .go file
hasGoFiles_swallow(fsys, path, site, fail) ==
    LET r == ReadDir(fsys, path, site, fail)
    IN  [ result |-> r.err = "nil" /\ \E i \in DOMAIN r.list : IsGoFile(r.list[i]),
          err |-> "nil",
          ioerr |-> r.err ]

\* hasGoFiles(path)
hasGoFiles(fsys, path, site, fail) ==
    LET r == ReadDir(fsys, path, site, fail)
    IN  IF r.err # "nil" THEN [result |-> FALSE, err |-> r.err, ioerr |-> r.err]
        ELSE [ result |-> \E i \in DOMAIN r.list : IsGoFile(r.list[i]),
               err |-> "nil",
               ioerr |-> r.err ]

(***************************************************************************)
(* DetectGolang.  A run threads a record st through the function body:     *)
(*   st.err      the error the run has returned with, "nil" while running  *)
(*   st.options  *options as mutated so far                                *)
(*   st.trace    the filesystem calls made, with the error each returned   *)
(*   st.scanned  whether the fallback scan of the top level was entered    *)
(* Every block leaves a run that has already returned unchanged.           *)
(***************************************************************************)
EmptyOptions ==
    [ CanonicalPath |-> "",
      Directories |-> <<>>,
      GoDirectories |-> <<>>,
      SourceFiles |-> <<>>,
      GoSourceFiles |-> <<>>,
      VersionPackage |-> "",
      Commands |-> <<>> ]

\* a descriptor another ecosystem's detector has already written to
SharedOptions ==
    [EmptyOptions EXCEPT !.Directories = <<"hack">>, !.SourceFiles = <<"Makefile">>]

Note(st, site, path, err) ==
    [st EXCEPT !.trace = Append(@, Event(site, path, err))]

Fail(st, err) == [st EXCEPT !.err = err]

\* append(options.Directories, d); append(options.GoDirectories, d)
AddDirectory(st, d) ==
    [st EXCEPT !.options.Directories = Append(@, d),
               !.options.GoDirectories = Append(@, d)]

\* the loop over the standard source directories, from its i-th iteration
RECURSIVE SourceDirsFrom(_, _, _, _)
SourceDirsFrom(fsys, st, fail, i) ==
    IF i > Len(ConvDirs) THEN st
    ELSE LET srcDir == ConvDirs[i]
             e == directoryExists(fsys, srcDir, "stat_src", fail)
             noted == Note(st, "stat_src", srcDir, e.err)
         IN  IF e.err # "nil" THEN Fail(noted, e.err)
             ELSE SourceDirsFrom(fsys,
                                 IF e.exists THEN AddDirectory(noted, srcDir) ELSE noted,
                                 fail, i + 1)

SourceDirs(fsys, st, fail) ==
    IF st.err # "nil" THEN st ELSE SourceDirsFrom(fsys, st, fail, 1)

\* the loop over topLevel, from its i-th item
RECURSIVE TopLevelFrom(_, _, _, _, _)
TopLevelFrom(fsys, st, fail, topLevel, i) ==
    IF i > Len(topLevel) THEN st
    ELSE LET item == topLevel[i]
         IN  IF ~item.isDir THEN TopLevelFrom(fsys, st, fail, topLevel, i + 1)
             ELSE LET h == hasGoFiles(fsys, Join("", item.name), "hasgo_sub", fail)
                      noted == Note(st, "hasgo_sub", item.name, h.ioerr)
                  IN  IF h.err # "nil" THEN Fail(noted, h.err)
                      ELSE TopLevelFrom(fsys,
                                        IF h.result THEN AddDirectory(noted, item.name)
                                        ELSE noted,
                                        fail, topLevel, i + 1)

\* len(options.GoDirectories) == 0: whether the fallback scan is entered
NoStandardDirs(st) == Len(st.options.GoDirectories) = 0

\* no standard directories found: any directory with .go files is a source directory
FallbackDirs(fsys, st, fail) ==
    IF st.err # "nil" THEN st
    ELSE IF ~NoStandardDirs(st) THEN st
    ELSE LET r == ReadDir(fsys, "", "readdir_top", fail)
             noted == [Note(st, "readdir_top", "", r.err) EXCEPT !.scanned = TRUE]
         IN  IF r.err # "nil" THEN Fail(noted, r.err)
             ELSE TopLevelFrom(fsys, noted, fail, r.list, 1)

\* the file is recorded as a Go source file only
AddSourceFile_goOnly(st, f) ==
    [st EXCEPT !.options.GoSourceFiles = Append(@, f)]

\* append(options.SourceFiles, f); append(options.GoSourceFiles, f)
AddSourceFile(st, f) ==
    [st EXCEPT !.options.SourceFiles = Append(@, f),
               !.options.GoSourceFiles = Append(@, f)]

RECURSIVE RootItemsFrom(_, _, _)
RootItemsFrom(st, contents, i) ==
    IF i > Len(contents) THEN st
    ELSE RootItemsFrom(IF IsGoFile(contents[i]) THEN AddSourceFile(st, contents[i].name)
                       ELSE st,
                       contents, i + 1)

\* the .go files directly under rootPath
RootFiles(fsys, st, fail) ==
    IF st.err # "nil" THEN st
    ELSE LET h == hasGoFiles(fsys, "", "hasgo_root", fail)
             noted == Note(st, "hasgo_root", "", h.ioerr)
         IN  IF h.err # "nil" THEN Fail(noted, h.err)
             ELSE IF ~h.result THEN noted
             ELSE LET r == ReadDir(fsys, "", "readdir_root", fail)
                      noted2 == Note(noted, "readdir_root", "", r.err)
                  IN  IF r.err # "nil" THEN Fail(noted2, r.err)
                      ELSE RootItemsFrom(noted2, r.list, 1)

\* options.SourceFiles = append(options.SourceFiles, "go.mod", "go.sum")
ManifestFiles(st) ==
    IF st.err # "nil" THEN st
    ELSE [st EXCEPT !.options.SourceFiles = @ \o <<"go.mod", "go.sum">>]

\* the loop over the version package candidates, from its i-th iteration
RECURSIVE VersionFrom(_, _, _, _)
VersionFrom(fsys, st, fail, i) ==
    IF i > Len(VersionCandidates) THEN st
    ELSE LET candidate == VersionCandidates[i]
             e == directoryExists(fsys, candidate, "stat_version", fail)
             noted == Note(st, "stat_version", candidate, e.err)
         IN  IF e.err # "nil" THEN Fail(noted, e.err)
             ELSE VersionFrom(fsys,
                              IF e.exists
                              THEN [noted EXCEPT !.options.VersionPackage =
                                        Join(noted.options.CanonicalPath, candidate)]
                              ELSE noted,
                              fail, i + 1)

VersionPackage(fsys, st, fail) ==
    IF st.err # "nil" THEN st ELSE VersionFrom(fsys, st, fail, 1)

RECURSIVE CommandsFrom(_, _, _)
CommandsFrom(st, dirs, i) ==
    IF i > Len(dirs) THEN st
    ELSE CommandsFrom(IF dirs[i].isDir
                      THEN [st EXCEPT !.options.Commands = Append(@, dirs[i].name)]
                      ELSE st,
                      dirs, i + 1)

\* the subdirectories of cmd/
Commands(fsys, st, fail) ==
    IF st.err # "nil" THEN st
    ELSE LET e == directoryExists(fsys, "cmd", "stat_cmd", fail)
             noted == Note(st, "stat_cmd", "cmd", e.err)
         IN  IF e.err # "nil" THEN Fail(noted, e.err)
             ELSE IF ~e.exists THEN noted
             ELSE LET r == ReadDir(fsys, Join("", "cmd"), "readdir_cmd", fail)
                      noted2 == Note(noted, "readdir_cmd", "cmd", r.err)
                  IN  IF r.err # "nil" THEN Fail(noted2, r.err)
                      ELSE CommandsFrom(noted2, r.list, 1)

Returns(applicable, err, st) ==
    [ applicable |-> applicable,
      err |-> err,
      options |-> st.options,
      trace |-> st.trace,
      scanned |-> st.scanned ]

DetectGolang(fsys, opts, fail) ==
    LET openErr == OsOpen(fsys, "go.mod", fail)
        st0 == [ err |-> "nil", options |-> opts, scanned |-> FALSE,
                 trace |-> <<Event("open", "go.mod", openErr)>> ]
        readErr == ReadAll("go.mod", fail)
        st1 == Note(st0, "read", "go.mod", readErr)
        st2 == [st1 EXCEPT !.options.CanonicalPath = ModulePath(fsys.gomod)]
        st3 == SourceDirs(fsys, st2, fail)
        st4 == FallbackDirs(fsys, st3, fail)
        st5 == RootFiles(fsys, st4, fail)
        st6 == ManifestFiles(st5)
        st7 == VersionPackage(fsys, st6, fail)
        st8 == Commands(fsys, st7, fail)
    IN  IF openErr # "nil"
        THEN IF IsNotExist(openErr) THEN Returns(FALSE, "nil", st0)
             ELSE Returns(FALSE, openErr, st0)
        ELSE IF readErr # "nil" THEN Returns(TRUE, readErr, st1)
        ELSE Returns(TRUE, st8.err, st8)

(***************************************************************************)
(* Spec: DetectGolang is called, up to MaxCalls times, on one descriptor   *)
(* against an unchanging filesystem.                                       *)
(***************************************************************************)
NoReturn == [applicable |-> FALSE, err |-> "nil", trace |-> <<>>, scanned |-> FALSE]

IdleBuild ==
    /\ meta = EmptyOptions
    /\ inputs = <<>>
    /\ nodes = <<>>
    /\ loc = <<>>
    /\ outputs = <<>>
    /\ pc = "idle"
    /\ idx = 0
    /\ log = <<>>

Init ==
    /\ fs \in {MkFS(l) : l \in Layouts}
    /\ options \in {EmptyOptions, SharedOptions}
    /\ prev = options
    /\ ret = NoReturn
    /\ calls = 0
    /\ IdleBuild

Detect ==
    /\ calls < MaxCalls
    /\ \E fail \in FailPoints :
          \E r \in {DetectGolang(fs, options, fail)} :
              /\ options' = r.options
              /\ ret' = [ applicable |-> r.applicable, err |-> r.err,
                          trace |-> r.trace, scanned |-> r.scanned ]
    /\ prev' = options
    /\ calls' = calls + 1
    /\ UNCHANGED <<fs>>
    /\ UNCHANGED buildVars

Next == Detect

Spec == Init /\ [][Next]_vars

(***************************************************************************)
(* BuildGolang, one statement per action.  A dag.Node is a record; its id  *)
(* is its position in nodes, so ids follow the order of construction.      *)
(* The upstream nodes passed as inputs exist before the run starts.        *)
(***************************************************************************)
NewNode(kind, name, path) ==
    [kind |-> kind, name |-> name, path |-> path, inputs |-> <<>>]

\* wrap.Drone(node): a view of node, which it refers to
Drone(node) ==
    [kind |-> "drone", name |-> "", path |-> "", inputs |-> <<node>>]

\* the upstream graph: n nodes, independent or each depending on the one before
Upstream(n, chained) ==
    [i \in 1..n |->
        [NewNode("upstream", "", "") EXCEPT
            !.inputs = IF chained /\ i > 1 THEN <<i - 1>> ELSE <<>>]]

CommandNames == {"agent", "server"}

CommandLists ==
    UNION {[1..n -> CommandNames] : n \in 0..MaxCommands}

NoLocals ==
    [ toolchain |-> 0, golangciLint |-> 0, gofumpt |-> 0, lint |-> 0,
      unitTests |-> 0, coverage |-> 0, build |-> 0, image |-> 0,
      fhs |-> 0, cacerts |-> 0, drone |-> 0, err |-> "unset" ]

IdleDetect ==
    /\ fs = MkFS([gomod |-> "ok", src |-> FALSE, internal |-> FALSE, pkg |-> TRUE,
                  cmd |-> TRUE, lib |-> FALSE, mainGo |-> FALSE])
    /\ options = EmptyOptions
    /\ prev = EmptyOptions
    /\ ret = NoReturn
    /\ calls = 0

InitBuild ==
    /\ IdleDetect
    /\ \E cmds \in CommandLists : meta = [EmptyOptions EXCEPT !.Commands = cmds]
    /\ \E n \in 0..MaxInputs, chained \in BOOLEAN :
          /\ chained => n > 1
          /\ nodes = Upstream(n, chained)
          /\ inputs = [i \in 1..n |-> i]
    /\ loc = NoLocals
    /\ outputs = <<>>
    /\ pc = "toolchain"
    /\ idx = 0
    /\ log = <<>>

\* v := New...(meta): construct a node and assign it to local v
Construct(v, node, next) ==
    /\ nodes' = Append(nodes, node)
    /\ loc' = [loc EXCEPT ![v] = Len(nodes) + 1]
    /\ pc' = next
    /\ UNCHANGED <<meta, inputs, outputs, idx, log>>

\* node.AddInput(targets...)
AddInput(n, targets, next) ==
    /\ n \in DOMAIN nodes
    /\ nodes' = [nodes EXCEPT ![n].inputs = @ \o targets]
    /\ log' = Append(log, [node |-> n, targets |-> targets, size |-> Len(nodes)])
    /\ pc' = next
    /\ UNCHANGED <<meta, inputs, loc, outputs, idx>>

\* where the range loop over meta.Commands goes after i iterations
LoopFrom(i) == IF i < Len(meta.Commands) THEN "build" ELSE "return"

NewToolchain ==
    /\ pc = "toolchain"
    /\ Construct("toolchain", NewNode("toolchain", "", ""), "toolchainInputs")
    /\ UNCHANGED detectVars

ToolchainAddInputs ==
    /\ pc = "toolchainInputs"
    /\ AddInput(loc.toolchain, inputs, "golangciLint")
    /\ UNCHANGED detectVars

NewGolangciLint ==
    /\ pc = "golangciLint"
    /\ Construct("golangciLint", NewNode("golangci-lint", "", ""), "gofumpt")
    /\ UNCHANGED detectVars

\* gofumpt is never assigned and stays nil
NewGofumpt_unassigned ==
    /\ pc = "gofumpt"
    /\ pc' = "toolchainLinters"
    /\ UNCHANGED <<meta, inputs, nodes, loc, outputs, idx, log>>
    /\ UNCHANGED detectVars

NewGofumpt ==
    /\ pc = "gofumpt"
    /\ Construct("gofumpt", NewNode("gofumpt", "", ""), "toolchainLinters")
    /\ UNCHANGED detectVars

\* linters are input to the toolchain
ToolchainAddLinters ==
    /\ pc = "toolchainLinters"
    /\ AddInput(loc.toolchain, <<loc.golangciLint, loc.gofumpt>>, "lint")
    /\ UNCHANGED detectVars

NewLint ==
    /\ pc = "lint"
    /\ Construct("lint", NewNode("lint", "", ""), "lintInputs")
    /\ UNCHANGED detectVars

\* a linter is made to depend on the toolchain
LintAddInput_reversed ==
    /\ pc = "lintInputs"
    /\ AddInput(loc.golangciLint, <<loc.toolchain>>, "unitTests")
    /\ UNCHANGED detectVars

LintAddInput ==
    /\ pc = "lintInputs"
    /\ AddInput(loc.lint, <<loc.toolchain, loc.golangciLint, loc.gofumpt>>, "unitTests")
    /\ UNCHANGED detectVars

NewUnitTests ==
    /\ pc = "unitTests"
    /\ Construct("unitTests", NewNode("unit-tests", "", ""), "unitTestsInputs")
    /\ UNCHANGED detectVars

UnitTestsAddInput ==
    /\ pc = "unitTestsInputs"
    /\ AddInput(loc.unitTests, <<loc.toolchain>>, "coverage")
    /\ UNCHANGED detectVars

\* coverage := service.NewCodeCov(meta); coverage.InputPath = "coverage.txt"
NewCodeCov ==
    /\ pc = "coverage"
    /\ Construct("coverage", NewNode("codecov", "", "coverage.txt"), "coverageInputs")
    /\ UNCHANGED detectVars

CoverageAddInput ==
    /\ pc = "coverageInputs"
    /\ AddInput(loc.coverage, <<loc.unitTests>>, "outputs")
    /\ UNCHANGED detectVars

\* outputs := []dag.Node{lint, unitTests, coverage}
MakeOutputs ==
    /\ pc = "outputs"
    /\ outputs' = <<loc.lint, loc.unitTests, loc.coverage>>
    /\ pc' = LoopFrom(0)
    /\ UNCHANGED <<meta, inputs, nodes, loc, idx, log>>
    /\ UNCHANGED detectVars

\* build := golang.NewBuild(meta, cmd, filepath.Join("cmd", cmd))
NewBuild ==
    /\ pc = "build"
    /\ LET cmd == meta.Commands[idx + 1]
       IN  Construct("build", NewNode("build", cmd, Join("cmd", cmd)), "buildInputs")
    /\ UNCHANGED detectVars

BuildAddInput ==
    /\ pc = "buildInputs"
    /\ AddInput(loc.build, <<loc.toolchain>>, "image")
    /\ UNCHANGED detectVars

\* image := common.NewImage(meta, cmd)
NewImage ==
    /\ pc = "image"
    /\ Construct("image", NewNode("image", meta.Commands[idx + 1], ""), "fhs")
    /\ UNCHANGED detectVars

\* the arguments of image.AddInput, evaluated left to right
NewFHS ==
    /\ pc = "fhs"
    /\ Construct("fhs", NewNode("fhs", "", ""), "cacerts")
    /\ UNCHANGED detectVars

NewCACerts ==
    /\ pc = "cacerts"
    /\ Construct("cacerts", NewNode("ca-certs", "", ""), "drone")
    /\ UNCHANGED detectVars

WrapDrone ==
    /\ pc = "drone"
    /\ Construct("drone", Drone(loc.unitTests), "imageInputs")
    /\ UNCHANGED detectVars

\* the image is wired to the toolchain instead of its build, and lint is left out
ImageAddInput_noBuild ==
    /\ pc = "imageInputs"
    /\ AddInput(loc.image, <<loc.toolchain, loc.fhs, loc.cacerts, loc.drone>>, "append")
    /\ UNCHANGED detectVars

ImageAddInput ==
    /\ pc = "imageInputs"
    /\ AddInput(loc.image, <<loc.build, loc.fhs, loc.cacerts, loc.lint, loc.drone>>,
                "append")
    /\ UNCHANGED detectVars

\* outputs = append(outputs, build, image), and on to the next command
AppendOutputs ==
    /\ pc = "append"
    /\ outputs' = outputs \o <<loc.build, loc.image>>
    /\ idx' = idx + 1
    /\ pc' = LoopFrom(idx + 1)
    /\ UNCHANGED <<meta, inputs, nodes, loc, log>>
    /\ UNCHANGED detectVars

\* return outputs, nil
Return ==
    /\ pc = "return"
    /\ loc' = [loc EXCEPT !.err = "nil"]
    /\ pc' = "done"
    /\ UNCHANGED <<meta, inputs, nodes, outputs, idx, log>>
    /\ UNCHANGED detectVars

NextBuild ==
    \/ NewToolchain
    \/ ToolchainAddInputs
    \/ NewGolangciLint
    \/ NewGofumpt
    \/ ToolchainAddLinters
    \/ NewLint
    \/ LintAddInput
    \/ NewUnitTests
    \/ UnitTestsAddInput
    \/ NewCodeCov
    \/ CoverageAddInput
    \/ MakeOutputs
    \/ NewBuild
    \/ BuildAddInput
    \/ NewImage
    \/ NewFHS
    \/ NewCACerts
    \/ WrapDrone
    \/ ImageAddInput
    \/ AppendOutputs
    \/ Return

SpecBuild == InitBuild /\ [][NextBuild]_vars

(***************************************************************************)
(* Properties of DetectGolang, checked under Spec.                         *)
(***************************************************************************)
Range(s) == {s[i] : i \in DOMAIN s}

Names(items) == [i \in DOMAIN items |-> items[i].name]

\* what the last call appended to a sequence that was `old` when it began
Appended(now, old) == SubSeq(now, Len(old) + 1, Len(now))

Called == calls > 0
Succeeded == Called /\ ret.applicable /\ ret.err = "nil"
ManifestPresent == HasEntry(fs, "", FileEntry("go.mod"))

\* the filesystem calls of the last run that failed other than by not-exist
IoFailures == {i \in DOMAIN ret.trace : ret.trace[i].err \notin {"nil", "ENOENT"}}

\* the standard source directories that exist, in list order
ExistingConvDirs == SelectSeq(ConvDirs, LAMBDA d : d \in DOMAIN fs.tree)

\* the immediate subdirectories that directly hold a .go file, in listing order
GoSubdirs ==
    Names(SelectSeq(fs.tree[""],
                    LAMBDA it : /\ it.isDir
                                /\ \E j \in DOMAIN fs.tree[it.name] :
                                       IsGoFile(fs.tree[it.name][j])))

ExistingCandidates == SelectSeq(VersionCandidates, LAMBDA c : c \in DOMAIN fs.tree)

\* C1: when go.mod is absent, DetectGolang returns (false, nil) and leaves
\* every field of the descriptor as it was before the call.
C1_AbsentManifestNotApplicable ==
    (Called /\ ~ManifestPresent) =>
        /\ ret.applicable = FALSE
        /\ ret.err = "nil"
        /\ options = prev

C1_Witness ==
    /\ Called
    /\ ~ManifestPresent
    /\ prev = SharedOptions
    /\ "lib" \in DOMAIN fs.tree

\* C2 (as claimed): when go.mod exists and any filesystem call of the run fails
\* other than by not-exist, opening go.mod included, DetectGolang returns
\* (true, error).
C2_Original ==
    (Called /\ ManifestPresent /\ IoFailures # {}) =>
        /\ ret.applicable
        /\ ret.err # "nil"

\* C2 (amended): when go.mod exists and a filesystem call of the run fails
\* other than by not-exist, DetectGolang returns that error and stops at the
\* failing call; applicable is false when the failing call is the opening of
\* go.mod and true for every other call.
C2_IoFailureReturned ==
    (Called /\ ManifestPresent /\ IoFailures # {}) =>
        /\ IoFailures = {Len(ret.trace)}
        /\ ret.err = ret.trace[Len(ret.trace)].err
        /\ ret.applicable <=> ret.trace[Len(ret.trace)].site # "open"

C2_Witness ==
    /\ Called
    /\ ret.applicable
    /\ ret.err = "EACCES"
    /\ \E i \in IoFailures : ret.trace[i].site = "hasgo_sub" /\ ret.trace[i].path = "lib"

\* C3: when go.mod is present but holds no module directive, DetectGolang
\* returns a non-nil error, and does not complete with (true, nil) and an
\* empty CanonicalPath.
C3_MalformedManifestFails ==
    (Called /\ ManifestPresent /\ ~\E i \in DOMAIN fs.gomod : fs.gomod[i][1] = "module") =>
        /\ ret.err # "nil"
        /\ ~(ret.applicable /\ options.CanonicalPath = "")

\* C4: in a successful call the fallback scan runs if and only if this call
\* found no standard directory; the names appended to Directories and
\* GoDirectories are the existing standard directories in list order when
\* there is one, and otherwise the subdirectories that directly hold a .go
\* file, in listing order.
C4_StrategiesExclusive ==
    Succeeded =>
        /\ ret.scanned <=> ExistingConvDirs = <<>>
        /\ Appended(options.GoDirectories, prev.GoDirectories) =
              (IF ExistingConvDirs # <<>> THEN ExistingConvDirs ELSE GoSubdirs)
        /\ Appended(options.Directories, prev.Directories) =
              (IF ExistingConvDirs # <<>> THEN ExistingConvDirs ELSE GoSubdirs)

\* C5: in a successful call VersionPackage becomes CanonicalPath joined with
\* the first candidate that exists, no later candidate is checked after it,
\* and VersionPackage is left as it was when no candidate exists.
C5_FirstVersionCandidateWins ==
    Succeeded =>
        IF ExistingCandidates = <<>>
        THEN options.VersionPackage = prev.VersionPackage
        ELSE /\ options.VersionPackage =
                    Join(options.CanonicalPath, ExistingCandidates[1])
             /\ \A i \in DOMAIN ret.trace :
                    ret.trace[i].site = "stat_version" =>
                        \A j \in DOMAIN VersionCandidates :
                            /\ VersionCandidates[j] = ret.trace[i].path
                            => \A k \in 1..(j - 1) :
                                  VersionCandidates[k] \notin DOMAIN fs.tree

\* C6: a successful call that follows a successful call against the same
\* filesystem, on the descriptor the first one filled, leaves every field of
\* the descriptor as the first call left it.
C6_Idempotent ==
    [][(Succeeded /\ ret'.applicable /\ ret'.err = "nil") => options' = options]_vars

\* C9: in every state GoDirectories is a subset of Directories and
\* GoSourceFiles a subset of SourceFiles; go.mod and go.sum are in
\* SourceFiles after every successful call and never in GoSourceFiles.
C9_EcosystemSubsets ==
    /\ Range(options.GoDirectories) \subseteq Range(options.Directories)
    /\ Range(options.GoSourceFiles) \subseteq Range(options.SourceFiles)
    /\ Succeeded => {"go.mod", "go.sum"} \subseteq Range(options.SourceFiles)
    /\ {"go.mod", "go.sum"} \cap Range(options.GoSourceFiles) = {}

C9_Witness ==
    /\ calls > 1
    /\ ret.applicable
    /\ ret.err # "nil"
    /\ "main.go" \in Range(options.GoSourceFiles)
    /\ "lib" \in Range(options.GoDirectories)
    /\ "go.mod" \in Range(options.SourceFiles)

(***************************************************************************)
(* Properties of BuildGolang, checked under SpecBuild.                     *)
(***************************************************************************)
Done == pc = "done"

InputsOf(n) == Range(nodes[n].inputs)

\* the nodes reachable from the set `seen` through inputs edges, `seen` included
RECURSIVE Closure(_)
Closure(seen) ==
    LET more == UNION {InputsOf(n) : n \in seen \cap DOMAIN nodes}
    IN  IF more \subseteq seen THEN seen ELSE Closure(seen \cup more)

\* the nodes reachable from n by following one or more inputs edges
ReachableFrom(n) == Closure(InputsOf(n))

NodesOfKind(kind) == {n \in DOMAIN nodes : nodes[n].kind = kind}

\* C7: BuildGolang returns, with a nil error, lint, unit-tests and coverage
\* followed by one (build, image) pair per entry of meta.Commands, in order;
\* each build node's only input is the toolchain node, and each image node's
\* inputs hold its own build node, no other build node, and the one lint node.
C7_OutputsPerCommand ==
    Done =>
        /\ loc.err = "nil"
        /\ Len(outputs) = 3 + 2 * Len(meta.Commands)
        /\ Cardinality(Range(outputs)) = Len(outputs)
        /\ Range(outputs) \subseteq DOMAIN nodes
        /\ nodes[outputs[1]].kind = "lint"
        /\ nodes[outputs[2]].kind = "unit-tests"
        /\ nodes[outputs[3]].kind = "codecov"
        /\ NodesOfKind("lint") = {outputs[1]}
        /\ Cardinality(NodesOfKind("toolchain")) = 1
        /\ \A i \in DOMAIN meta.Commands :
              LET build == outputs[2 + 2 * i]
                  image == outputs[3 + 2 * i]
              IN  /\ nodes[build].kind = "build"
                  /\ nodes[build].name = meta.Commands[i]
                  /\ Len(nodes[build].inputs) = 1
                  /\ InputsOf(build) = NodesOfKind("toolchain")
                  /\ nodes[image].kind = "image"
                  /\ nodes[image].name = meta.Commands[i]
                  /\ InputsOf(image) \cap NodesOfKind("build") = {build}
                  /\ outputs[1] \in InputsOf(image)

C7_Witness ==
    /\ Done
    /\ meta.Commands = <<"agent", "server">>
    /\ Len(outputs) = 7
    /\ Len(inputs) = 2

\* C8: at every point of the run, and so in the graph BuildGolang returns, no
\* node is reachable from itself by following one or more inputs edges.
C8_Acyclic == \A n \in DOMAIN nodes : n \notin ReachableFrom(n)

C8_Witness ==
    /\ Done
    /\ Len(meta.Commands) = 2
    /\ Len(inputs) = 2
    /\ \A i \in DOMAIN outputs :
          /\ loc.toolchain \in ReachableFrom(outputs[i])
          /\ inputs[2] \in ReachableFrom(outputs[i])
    /\ {loc.golangciLint, loc.gofumpt} \subseteq InputsOf(loc.toolchain) \cap InputsOf(loc.lint)

====
